---- MODULE Spec2Model ----
(***************************************************************************)
(* Model of the real-time coordination core of denuel_voice_bridge:        *)
(*   - AudioBuffer            (src/ai/api/streaming.py)                     *)
(*   - VoiceActivityDetector  (src/ai/pipelines/denuel_voice_bridge.py)     *)
(*   - StreamingSession       (src/ai/api/streaming.py)                     *)
(*                                                                         *)
(* AudioBuffer runs under asyncio: a task runs without interruption until  *)
(* it awaits something that is not ready.  `async with self._lock` never   *)
(* suspends here, because no holder of the lock awaits inside the locked   *)
(* section, so the lock is free whenever a task is scheduled; the locked   *)
(* sections of write and read are therefore single atomic steps.           *)
(* Event.wait() returns at once when the flag is set; otherwise the task   *)
(* is parked, Event.set() marks every parked task runnable, and the task   *)
(* continues later WITHOUT re-testing the flag.                            *)
(***************************************************************************)
EXTENDS Integers, Sequences, FiniteSets, TLC

\* ------------------------------------------------------------------ bounds
\* capacity of the buffer under test (AudioBuffer(max_size=...))
MaxSize == 2
\* accepted bytes since construction / the last clear() are capped
MaxTotal == 3
\* tasks that call wait_not_full()
NumWaiters == 1

\* process_chunk is not fed once a frame counter has reached this value
MaxFrames == 13

\* max_duration of a recording, in chunks; the audio thread delivers at
\* most one chunk more
MaxDuration == 30
\* chunks the live loop reads from the input stream
MaxChunks == 21

\* messages are enqueued only while the outbound queue holds at most this
MaxQueue == 4
\* audio slices handed to the transcription collaborator in one session
MaxUtt == 2
\* metrics.errors is not counted beyond this
MaxErrors == 1
\* longest payload the synthesis collaborator returns, in bytes
MaxPayload == 3

\* ------------------------------------------------------- program constants
\* the tasks of a session that call read() on its buffer: _process_loop and
\* _receive_loop (in _stop_stream)
NumReaders == 2

\* VoiceActivityDetector.__init__; energies are fixed-point, 1 = 0.000025
min_speech_frames == 3
max_silence_frames == 10
NoiseFloorInit == 40
EnergyThresholdInit == 400
\* RMS energies of the chunks fed to the detector: digital silence, room
\* noise, a soft voice and a loud voice
Energies == {0, 70, 130, 400}
\* the chunks a capture loop of the bridge reads: silence or a loud voice
CaptureEnergies == {0, 400}

\* streaming.py, scaled: sizes in units of 4096 bytes, queue depths in
\* units of 50 messages
AUDIO_CHUNK_SIZE == 1
HIGH_WATER_MARK == 2
LOW_WATER_MARK == 1
\* _generate_response: chunk_size = 8192
chunk_size == 2
\* record_until_silence: `silence_after_speech > 15`
silence_limit == 15
\* _live_processing_loop: max_silence_chunks = 8 and `len(audio_buffer) > 5`
max_silence_chunks == 8
MinUtteranceChunks == 5
\* _process_loop keeps the last 100 latency samples; scaled
LATENCY_WINDOW == 1

Readers == 1..NumReaders
Waiters == 1..NumWaiters
\* a write may be one byte longer than the whole capacity
MaxWrite == MaxSize + 1
\* `size is None`
None == -1
ReadSizes == {None} \cup (1..MaxSize)

IsPrefix(s, t) == Len(s) <= Len(t) /\ SubSeq(t, 1, Len(s)) = s

VARIABLES
    buffer,        \* AudioBuffer._buffer
    not_full,      \* AudioBuffer._not_full  (asyncio.Event flag)
    not_empty,     \* AudioBuffer._not_empty (asyncio.Event flag)
    rpc,           \* per reader task: "idle", "waiting" (parked in
                   \* _not_empty.wait()), "woken" (runnable, before the lock)
    rsize,         \* per reader task: the size argument of its read()
    wpc,           \* per wait_not_full task: "idle", "waiting", "woken"
    written,       \* history: bytes accepted since construction/last clear
    readCat,       \* history: bytes returned by reads since then
    cleared,       \* history: clear() has been called
    rAfterClear,   \* history: the reader's pending read() was called after
                   \* a clear() and no clear() has happened since the call
    lastOp         \* the call that completed (or suspended) in the last step

VARIABLES
    noise_floor,      \* VoiceActivityDetector.noise_floor
    energy_threshold, \* VoiceActivityDetector.energy_threshold
    is_speaking,      \* VoiceActivityDetector.is_speaking
    speech_frames,    \* VoiceActivityDetector.speech_frames
    silence_frames,   \* VoiceActivityDetector.silence_frames
    vadOp,            \* the detector call made in the last step
    prevSpeaking,     \* history: is_speaking before that call
    curRun,           \* history: length of the run of above-threshold
                      \* chunks that ends at the last chunk fed since reset()
    longRun,          \* history: some run since reset() reached
                      \* min_speech_frames chunks
    allVoice,         \* history: no below-threshold chunk since reset()
    silRun,           \* history: length of the run of below-threshold
                      \* chunks that ends at the last chunk fed
    resetSeen         \* history: reset() has been called

\* DenuelVoiceBridge live mode: the thread running _live_processing_loop and
\* the thread that sets the stop flag
VARIABLES
    live_pc,          \* where _live_processing_loop is: "off", "loop" (at the
                      \* while test), "read" (in stream.read), "reset", in
                      \* a stage of _process_live_utterance or past the
                      \* check before it ("ready_..."), "closed"
    stop_requested,   \* DenuelVoiceBridge._stop_requested
    audio_buffer,     \* _live_processing_loop: audio_buffer, a chunk being
                      \* its number in reading order
    speech_active,    \* _live_processing_loop: speech_active
    silence_count,    \* _live_processing_loop: silence_count
    chunksRead,       \* chunks read from the input stream so far
    onset,            \* history: the first above-threshold chunk of the run
                      \* at which the detector last went Silence -> Speaking
    readsAfterStop    \* history: chunks read since the flag was set

\* DenuelVoiceBridge.record_until_silence: the calling thread and the
\* audio thread that runs audio_callback
VARIABLES
    rec_pc,               \* where record_until_silence is: "off", "sleep"
                          \* (in the polling loop), "closing" (leaving the
                          \* `with` block), "done" (returned)
    rec_buffer,           \* record_until_silence: audio_buffer, a chunk
                          \* being its number in arrival order
    speech_started,       \* record_until_silence: speech_started
    silence_after_speech, \* record_until_silence: silence_after_speech
    returned,             \* the chunks of the array returned
    delivered,            \* history: the calls of audio_callback so far
    everSpeaking,         \* history: the detector has reported Speaking
                          \* for a chunk of this recording
    notSpeakingRun        \* history: the chunks, up to the last one, for
                          \* which it has reported not-speaking in a row

VARIABLES
    state,           \* StreamingSession.state
    running,         \* StreamingSession._running
    send_queue,      \* StreamingSession._send_queue
    send_queue_high, \* StreamingSession._send_queue_high
    errors,          \* StreamingSession.metrics.errors
    voice,           \* config.voice_profile_id is set
    interim,         \* config.interim_results
    rxpc,            \* _receive_loop: "recv", "delay" (sleeping in
                     \* _handle_audio), "transcribe", "synth" (awaiting the
                     \* executor under _stop_stream), "done"
    rxLen,           \* _handle_audio: len(data) of the frame being handled
    rxUtt,           \* the slice _stop_stream handed to _process_audio
    txpc,            \* _send_loop: "check", "throttle", "get", "send", "done"
    txMsg,           \* _send_loop: message
    pxpc,            \* _process_loop: "loop", "transcribe", "synth", "done"
    pxUtt,           \* the slice _process_loop handed to _process_audio
    uttCount,        \* slices read from the buffer so far
    disconnected,    \* the transport delivered websocket.disconnect
    cancelReq,       \* loops with a pending CancelledError
    stopped,         \* stop() has run
    reported,        \* history: the error the last step reported with an
                     \* error message ("" when it enqueued none)
    fifoOk,          \* history: each message that left _send_loop was the
                     \* one due
    finalCount,      \* history: transcript_final messages enqueued per slice
    audioDone,       \* history: slices with audio_response enqueued
    orderOk,         \* history: every slice's messages were enqueued partial,
                     \* then final, then audio
    obsHigh,         \* history: the last depth _send_loop observed outside
                     \* LOW_WATER_MARK..HIGH_WATER_MARK was above
    notified,        \* history: the state the state_change messages
                     \* enqueued so far lead to, each continuing from the
                     \* state the one before it named ("lost" otherwise)
    discarded,       \* history: the slices whose transcription or synthesis
                     \* call was in flight when its loop was cancelled
    lateOk,          \* history: no transcript or audio message of a slice
                     \* was enqueued after the slice's call was discarded
    partialOk,       \* history: every transcript_partial was enqueued with
                     \* config.interim_results enabled
    audioPut,        \* history: the audio pieces and completion markers put
                     \* on the queue by the last step
    latency_samples  \* metrics.latency_samples; a sample is the number of
                     \* the slice whose processing it times

sessVars == <<state, running, send_queue, send_queue_high, errors, voice,
              interim, rxpc, rxLen, rxUtt, txpc, txMsg, pxpc, pxUtt,
              uttCount, disconnected, cancelReq, stopped, reported, fifoOk,
              finalCount, audioDone, orderOk, obsHigh, notified, discarded,
              lateOk, partialOk, audioPut, latency_samples>>

detVars == <<noise_floor, energy_threshold, is_speaking, speech_frames,
             silence_frames, vadOp, prevSpeaking, curRun, longRun, allVoice,
             silRun, resetSeen>>

liveVars == <<live_pc, stop_requested, audio_buffer, speech_active,
              silence_count, chunksRead, onset, readsAfterStop>>

recVars == <<rec_pc, rec_buffer, speech_started, silence_after_speech,
             returned, delivered, everSpeaking, notSpeakingRun>>

\* the detector and the capture loops of the bridge that feed it
vadVars == <<detVars, liveVars, recVars>>

bufVars == <<buffer, not_full, not_empty, rpc, rsize, wpc, written, readCat,
             cleared, rAfterClear, lastOp>>

\* The buffer never looks inside a byte, so a write of k bytes carries k
\* fresh byte values, numbered in the order the bytes are accepted: any loss,
\* duplication or reordering then shows in the contents.
Fresh(k) == [i \in 1..k |-> Len(written) + i]

Op(op, task, data, ok, size) ==
    [op |-> op, task |-> task, data |-> data, ok |-> ok, size |-> size]

\* ------------------------------------------------------------ AudioBuffer
\* AudioBuffer.__init__
InitBuf ==
    /\ buffer = <<>>
    /\ not_full = TRUE
    /\ not_empty = FALSE
    /\ rpc = [r \in Readers |-> "idle"]
    /\ rsize = [r \in Readers |-> None]
    /\ wpc = [w \in Waiters |-> "idle"]
    /\ written = <<>>
    /\ readCat = <<>>
    /\ cleared = FALSE
    /\ rAfterClear = [r \in Readers |-> FALSE]
    /\ lastOp = Op("init", 0, <<>>, TRUE, None)

\* asyncio.Event.set(): every parked task becomes runnable
WakeAll(pc) == [t \in DOMAIN pc |-> IF pc[t] = "waiting" THEN "woken" ELSE pc[t]]

WriteAcceptsOffByOne(buf, data) == Len(buf) + Len(data) <= MaxSize + 1
\* write: `if len(self._buffer) + len(data) > self.max_size` is false
WriteAccepts(buf, data) == Len(buf) + Len(data) <= MaxSize

WriteExtendFront(buf, data) == data \o buf
\* write: self._buffer.extend(data)
WriteExtend(buf, data) == buf \o data

WriteRejectedFills(buf, data) == buf \o SubSeq(data, 1, MaxSize - Len(buf))
\* write: the rejecting branch leaves self._buffer alone
WriteRejected(buf, data) == buf

\* AudioBuffer.write(data): what it does to the buffer and its events
WriteState(data) ==
    IF WriteAccepts(buffer, data)
    THEN /\ buffer' = WriteExtend(buffer, data)
         /\ not_empty' = TRUE
         /\ rpc' = WakeAll(rpc)
         /\ UNCHANGED not_full
    ELSE /\ buffer' = WriteRejected(buffer, data)
         /\ not_full' = FALSE
         /\ UNCHANGED <<not_empty, rpc>>

\* AudioBuffer.write(data)
Write(data) ==
    /\ WriteState(data)
    /\ IF WriteAccepts(buffer, data)
       THEN /\ Len(written) + Len(data) <= MaxTotal
            /\ written' = written \o data
            /\ lastOp' = Op("write", 0, data, TRUE, None)
       ELSE /\ lastOp' = Op("write", 0, data, FALSE, None)
            /\ UNCHANGED written
    /\ UNCHANGED <<rsize, wpc, readCat, cleared, rAfterClear>>
    /\ UNCHANGED vadVars

\* read: how many bytes leave the buffer (everything, or the first `size`)
ReadTake(buf, size) ==
    IF size = None \/ size >= Len(buf) THEN Len(buf) ELSE size

ReadDataTail(buf, size) ==
    SubSeq(buf, Len(buf) - ReadTake(buf, size) + 1, Len(buf))
\* read: data = bytes(self._buffer) or bytes(self._buffer[:size])
ReadData(buf, size) == SubSeq(buf, 1, ReadTake(buf, size))

\* read: self._buffer.clear() or del self._buffer[:size]
ReadRest(buf, size) == SubSeq(buf, ReadTake(buf, size) + 1, Len(buf))

\* read: what the section under the lock does to the buffer and its events
ReadState(size) ==
    /\ buffer' = ReadRest(buffer, size)
    /\ not_empty' = IF ReadRest(buffer, size) = <<>> THEN FALSE ELSE not_empty
    /\ not_full' = TRUE
    /\ wpc' = WakeAll(wpc)

\* read: the section under the lock
ReadLocked(r, size) ==
    /\ ReadState(size)
    /\ readCat' = readCat \o ReadData(buffer, size)
    /\ lastOp' = Op("read", r, ReadData(buffer, size), TRUE, size)
    /\ UNCHANGED <<written, cleared>>

\* AudioBuffer.read(size), from the call to its first suspension or return
ReadCall(r, size) ==
    /\ rpc[r] = "idle"
    /\ IF not_empty
       THEN /\ ReadLocked(r, size)
            /\ UNCHANGED <<rpc, rsize, rAfterClear>>
       ELSE /\ rpc' = [rpc EXCEPT ![r] = "waiting"]
            /\ rsize' = [rsize EXCEPT ![r] = size]
            /\ rAfterClear' = [rAfterClear EXCEPT ![r] = cleared]
            /\ lastOp' = Op("read_suspend", 0, <<>>, TRUE, None)
            /\ UNCHANGED <<buffer, not_full, not_empty, wpc, written,
                           readCat, cleared>>
    /\ UNCHANGED vadVars

\* AudioBuffer.read(size), continuing after _not_empty.wait() returned
ReadResume(r) ==
    /\ rpc[r] = "woken"
    /\ ReadLocked(r, rsize[r])
    /\ rpc' = [rpc EXCEPT ![r] = "idle"]
    /\ rsize' = [rsize EXCEPT ![r] = None]
    /\ rAfterClear' = [rAfterClear EXCEPT ![r] = FALSE]
    /\ UNCHANGED vadVars

\* AudioBuffer.wait_not_full(), from the call to its suspension or return
WaitNotFull(w) ==
    /\ wpc[w] = "idle"
    /\ IF not_full
       THEN /\ lastOp' = Op("wait_not_full", 0, <<>>, TRUE, None)
            /\ UNCHANGED wpc
       ELSE /\ wpc' = [wpc EXCEPT ![w] = "waiting"]
            /\ lastOp' = Op("wait_suspend", 0, <<>>, TRUE, None)
    /\ UNCHANGED <<buffer, not_full, not_empty, rpc, rsize, written, readCat,
                   cleared, rAfterClear>>
    /\ UNCHANGED vadVars

\* AudioBuffer.wait_not_full(), continuing after _not_full.wait() returned
WaitResume(w) ==
    /\ wpc[w] = "woken"
    /\ wpc' = [wpc EXCEPT ![w] = "idle"]
    /\ lastOp' = Op("wait_not_full", 0, <<>>, TRUE, None)
    /\ UNCHANGED <<buffer, not_full, not_empty, rpc, rsize, written, readCat,
                   cleared, rAfterClear>>
    /\ UNCHANGED vadVars

\* AudioBuffer.clear(): what it does to the buffer and its events
ClearState ==
    /\ buffer' = <<>>
    /\ not_empty' = FALSE
    /\ not_full' = TRUE
    /\ wpc' = WakeAll(wpc)

\* AudioBuffer.clear()
Clear ==
    /\ ClearState
    /\ written' = <<>>
    /\ readCat' = <<>>
    /\ cleared' = TRUE
    /\ rAfterClear' = [r \in Readers |-> FALSE]
    /\ lastOp' = Op("clear", 0, <<>>, TRUE, None)
    /\ UNCHANGED <<rpc, rsize>>
    /\ UNCHANGED vadVars

\* AudioBuffer.size
size == Len(buffer)

\* the buffer driven directly by its callers, outside a session
BufWrite(data) == Write(data) /\ UNCHANGED sessVars
BufReadCall(r, sz) == ReadCall(r, sz) /\ UNCHANGED sessVars
BufReadResume(r) == ReadResume(r) /\ UNCHANGED sessVars
BufWaitNotFull(w) == WaitNotFull(w) /\ UNCHANGED sessVars
BufWaitResume(w) == WaitResume(w) /\ UNCHANGED sessVars
BufClear == Clear /\ UNCHANGED sessVars

NextBuf ==
    \/ \E k \in 0..MaxWrite : BufWrite(Fresh(k))
    \/ \E r \in Readers, sz \in ReadSizes : BufReadCall(r, sz)
    \/ \E r \in Readers : BufReadResume(r)
    \/ \E w \in Waiters : BufWaitNotFull(w)
    \/ \E w \in Waiters : BufWaitResume(w)
    \/ BufClear

\* -------------------------------------------------- VoiceActivityDetector
\* VoiceActivityDetector.__init__
InitVad ==
    /\ noise_floor = NoiseFloorInit
    /\ energy_threshold = EnergyThresholdInit
    /\ is_speaking = FALSE
    /\ speech_frames = 0
    /\ silence_frames = 0
    /\ vadOp = "init"
    /\ prevSpeaking = FALSE
    /\ curRun = 0
    /\ longRun = FALSE
    /\ allVoice = TRUE
    /\ silRun = 0
    /\ resetSeen = FALSE

\* update_noise_floor: 0.95 * noise_floor + 0.05 * energy when the energy is
\* below twice the floor (fixed-point, truncated)
UpdatedNoiseFloor(nf, energy) ==
    IF energy < nf * 2 THEN (95 * nf + 5 * energy) \div 100 ELSE nf

\* update_noise_floor: self.energy_threshold = self.noise_floor * 3
Threshold(nf) == nf * 3

\* process_chunk: is_voice = energy > self.energy_threshold
IsVoice(energy, thr) == energy > thr

\* process_chunk: `if self.silence_frames > self.max_silence_frames` of the
\* counter update
SilenceResetsSpeech(silf) == silf > max_silence_frames

StartSpeakingEarly(sf) == sf >= min_speech_frames - 1
StartSpeakingLate(sf) == sf > min_speech_frames
\* process_chunk: `if self.speech_frames >= self.min_speech_frames`
StartSpeaking(sf) == sf >= min_speech_frames

EndSpeakingEarly(silf) == silf >= max_silence_frames
\* process_chunk: `if self.silence_frames > self.max_silence_frames` of the
\* state machine
EndSpeaking(silf) == silf > max_silence_frames

\* VoiceActivityDetector.process_chunk(audio_chunk): what it does to the
\* detector; energy is the RMS of the chunk
ProcessChunkState(energy) ==
    LET nf == UpdatedNoiseFloor(noise_floor, energy)
        thr == Threshold(nf)
        is_voice == IsVoice(energy, thr)
        silf == IF is_voice THEN 0 ELSE silence_frames + 1
        sf == IF is_voice THEN speech_frames + 1
              ELSE IF SilenceResetsSpeech(silf) THEN 0 ELSE speech_frames
        starts == ~is_speaking /\ StartSpeaking(sf)
        ends == is_speaking /\ EndSpeaking(silf)
    IN  /\ noise_floor' = nf
        /\ energy_threshold' = thr
        /\ silence_frames' = silf
        /\ speech_frames' = IF ends THEN 0 ELSE sf
        /\ is_speaking' = IF starts THEN TRUE
                          ELSE IF ends THEN FALSE ELSE is_speaking
        /\ vadOp' = "chunk"
        /\ prevSpeaking' = is_speaking
        /\ curRun' = IF is_voice THEN curRun + 1 ELSE 0
        /\ longRun' = (longRun \/ (is_voice /\ curRun + 1 >= min_speech_frames))
        /\ allVoice' = (allVoice /\ is_voice)
        /\ silRun' = IF is_voice THEN 0 ELSE silRun + 1
        /\ UNCHANGED resetSeen

\* VoiceActivityDetector.process_chunk(audio_chunk), called on the detector
\* alone
process_chunk(energy) ==
    /\ speech_frames < MaxFrames
    /\ silence_frames < MaxFrames
    /\ silRun < MaxFrames
    /\ ProcessChunkState(energy)
    /\ UNCHANGED <<liveVars, recVars>>
    /\ UNCHANGED bufVars
    /\ UNCHANGED sessVars

ResetFramesKeeps(n) == n
\* reset: self.speech_frames = 0 and self.silence_frames = 0
ResetFrames(n) == 0

\* VoiceActivityDetector.reset(): what it does to the detector
ResetState ==
    /\ is_speaking' = FALSE
    /\ speech_frames' = ResetFrames(speech_frames)
    /\ silence_frames' = ResetFrames(silence_frames)
    /\ vadOp' = "reset"
    /\ prevSpeaking' = is_speaking
    /\ curRun' = 0
    /\ longRun' = FALSE
    /\ allVoice' = TRUE
    /\ resetSeen' = TRUE
    /\ UNCHANGED <<noise_floor, energy_threshold, silRun>>

\* VoiceActivityDetector.reset(), called on the detector alone
reset ==
    /\ ResetState
    /\ UNCHANGED <<liveVars, recVars>>
    /\ UNCHANGED bufVars
    /\ UNCHANGED sessVars

NextVad ==
    \/ \E energy \in Energies : process_chunk(energy)
    \/ reset

\* ------------------------------ DenuelVoiceBridge.record_until_silence
\* record_until_silence has not been called
InitRec ==
    /\ rec_pc = "off"
    /\ rec_buffer = <<>>
    /\ speech_started = FALSE
    /\ silence_after_speech = 0
    /\ returned = <<>>
    /\ delivered = 0
    /\ everSpeaking = FALSE
    /\ notSpeakingRun = 0

recKeeps == <<bufVars, sessVars, liveVars>>

\* record_until_silence up to the polling loop: vad.reset(), and the input
\* stream is opened with audio_callback
RecStart ==
    /\ rec_pc = "off"
    /\ live_pc \in {"off", "closed"}
    /\ ResetState
    /\ rec_pc' = "sleep"
    /\ UNCHANGED <<rec_buffer, speech_started, silence_after_speech, returned,
                   delivered, everSpeaking, notSpeakingRun>>
    /\ UNCHANGED recKeeps

\* audio_callback, on the audio thread, while the stream is open.  The
\* calling thread only reads what the callback writes, and every value it
\* can read while the callback runs is one it can read before or after it.
audio_callback(energy) ==
    /\ rec_pc \in {"sleep", "closing"}
    /\ delivered <= MaxDuration
    /\ ProcessChunkState(energy)
    /\ LET is_speech == is_speaking'
       IN  /\ speech_started' = (speech_started \/ is_speech)
           /\ silence_after_speech' =
                 IF is_speech THEN 0
                 ELSE IF speech_started THEN silence_after_speech + 1
                 ELSE silence_after_speech
           /\ everSpeaking' = (everSpeaking \/ is_speech)
           /\ notSpeakingRun' = IF is_speech THEN 0 ELSE notSpeakingRun + 1
    /\ rec_buffer' = Append(rec_buffer, delivered + 1)
    /\ delivered' = delivered + 1
    /\ UNCHANGED <<rec_pc, returned>>
    /\ UNCHANGED recKeeps

SilenceLongEnoughEarly(started, count) == started /\ count >= silence_limit
\* record_until_silence: `if speech_started and silence_after_speech > 15`
SilenceLongEnough(started, count) == started /\ count > silence_limit

\* record_until_silence: `while total_samples < max_samples` is false
LimitReached(total) == total >= MaxDuration

\* the polling loop, from one time.sleep(0.1) to the next or out of the loop
RecPoll ==
    /\ rec_pc = "sleep"
    /\ rec_pc' = IF \/ SilenceLongEnough(speech_started, silence_after_speech)
                    \/ LimitReached(Len(rec_buffer))
                 THEN "closing" ELSE "sleep"
    /\ UNCHANGED <<rec_buffer, speech_started, silence_after_speech, returned,
                   delivered, everSpeaking, notSpeakingRun>>
    /\ UNCHANGED detVars
    /\ UNCHANGED recKeeps

\* record_until_silence: np.concatenate(audio_buffer), or the empty array
Concatenated(chunks) == chunks

\* the `with` block is left (the stream is stopped and closed, no callback
\* runs any more) and the chunks are concatenated and returned
RecClose ==
    /\ rec_pc = "closing"
    /\ rec_pc' = "done"
    /\ returned' = Concatenated(rec_buffer)
    /\ UNCHANGED <<rec_buffer, speech_started, silence_after_speech,
                   delivered, everSpeaking, notSpeakingRun>>
    /\ UNCHANGED detVars
    /\ UNCHANGED recKeeps

NextRec ==
    \/ RecStart
    \/ \E energy \in CaptureEnergies : audio_callback(energy)
    \/ RecPoll
    \/ RecClose

\* ------------------------------------------- DenuelVoiceBridge, live mode
\* live_confidence_mode has not been entered
InitLive ==
    /\ live_pc = "off"
    /\ stop_requested = FALSE
    /\ audio_buffer = <<>>
    /\ speech_active = FALSE
    /\ silence_count = 0
    /\ chunksRead = 0
    /\ onset = 0
    /\ readsAfterStop = 0

\* the stages of _process_live_utterance, in order
Stages == <<"clean", "transcribe", "correct", "synthesize", "play">>
StageSet == {Stages[i] : i \in 1..Len(Stages)}
\* the flag has been tested before the stage and was clear
Ready(stage) == "ready_" \o stage
ReadySet == {Ready(Stages[i]) : i \in 1..Len(Stages)}
StageNo(stage) == CHOOSE i \in 1..Len(Stages) : Stages[i] = stage

liveKeeps == <<bufVars, sessVars, recVars>>

\* live_confidence_mode: the flag is cleared and the stop thread started;
\* _live_processing_loop up to the while test: vad.reset(), stream.start()
LiveStart ==
    /\ live_pc = "off"
    /\ rec_pc \in {"off", "done"}
    /\ ResetState
    /\ live_pc' = "loop"
    /\ stop_requested' = FALSE
    /\ UNCHANGED <<audio_buffer, speech_active, silence_count, chunksRead,
                   onset, readsAfterStop>>
    /\ UNCHANGED liveKeeps

\* wait_for_stop (the stop thread) or stop_live_mode: the flag is set
SetStop ==
    /\ live_pc \notin {"off", "closed"}
    /\ ~stop_requested
    /\ stop_requested' = TRUE
    /\ UNCHANGED <<live_pc, audio_buffer, speech_active, silence_count,
                   chunksRead, onset, readsAfterStop>>
    /\ UNCHANGED detVars
    /\ UNCHANGED liveKeeps

\* _live_processing_loop: `while not self._stop_requested` is false
LoopExits(stop) == stop

\* the while test: the loop goes on to stream.read, or leaves through the
\* finally block, which stops and closes the stream
LiveLoopTest ==
    /\ live_pc = "loop"
    /\ IF LoopExits(stop_requested)
       THEN live_pc' = "closed"
       ELSE /\ chunksRead < MaxChunks
            /\ live_pc' = "read"
    /\ UNCHANGED <<stop_requested, audio_buffer, speech_active, silence_count,
                   chunksRead, onset, readsAfterStop>>
    /\ UNCHANGED detVars
    /\ UNCHANGED liveKeeps

\* _live_processing_loop: the chunk is appended under `if is_speech` and
\* under `elif speech_active`
Buffers(active, speech) == speech \/ active

ProceedsAlways(stop) == TRUE
\* _process_live_utterance: `if self._stop_requested: return` before a stage
Proceeds(stop) == ~stop

\* stream.read returns a chunk; the detector is fed and the chunk handled,
\* up to the first test of the flag in _process_live_utterance
LiveRead(energy) ==
    /\ live_pc = "read"
    /\ ProcessChunkState(energy)
    /\ chunksRead' = chunksRead + 1
    /\ readsAfterStop' = IF stop_requested THEN readsAfterStop + 1
                         ELSE readsAfterStop
    /\ LET n == chunksRead + 1
           is_speech == is_speaking'
           count == IF is_speech THEN 0
                    ELSE IF speech_active THEN silence_count + 1
                    ELSE silence_count
           chunks == IF Buffers(speech_active, is_speech)
                     THEN Append(audio_buffer, n) ELSE audio_buffer
           ended == ~is_speech /\ speech_active /\ count >= max_silence_chunks
       IN  /\ speech_active' = (speech_active \/ is_speech)
           /\ silence_count' = count
           /\ audio_buffer' = chunks
           /\ onset' = IF is_speech /\ ~prevSpeaking' THEN n - curRun' + 1
                       ELSE onset
           /\ live_pc' = IF ~ended THEN "loop"
                         ELSE IF Len(chunks) > MinUtteranceChunks
                                 /\ Proceeds(stop_requested)
                              THEN Ready("clean")
                              ELSE "reset"
    /\ UNCHANGED stop_requested
    /\ UNCHANGED liveKeeps

\* _process_live_utterance: a stage is entered
LiveStageStarts ==
    /\ live_pc \in ReadySet
    /\ live_pc' = CHOOSE st \in StageSet : Ready(st) = live_pc
    /\ UNCHANGED <<stop_requested, audio_buffer, speech_active, silence_count,
                   chunksRead, onset, readsAfterStop>>
    /\ UNCHANGED detVars
    /\ UNCHANGED liveKeeps

\* _process_live_utterance: a stage is over, and the flag is tested before
\* the next one; ok is false when transcribe or tts raised, or the text is
\* empty
LiveStageEnds(ok) ==
    /\ live_pc \in StageSet
    /\ ok \/ live_pc \in {"transcribe", "synthesize"}
    /\ live_pc' = IF ok /\ live_pc # "play" /\ Proceeds(stop_requested)
                  THEN Ready(Stages[StageNo(live_pc) + 1])
                  ELSE "reset"
    /\ UNCHANGED <<stop_requested, audio_buffer, speech_active, silence_count,
                   chunksRead, onset, readsAfterStop>>
    /\ UNCHANGED detVars
    /\ UNCHANGED liveKeeps

\* _live_processing_loop: "Reset for next utterance"
LiveReset ==
    /\ live_pc = "reset"
    /\ ResetState
    /\ audio_buffer' = <<>>
    /\ speech_active' = FALSE
    /\ silence_count' = 0
    /\ live_pc' = "loop"
    /\ UNCHANGED <<stop_requested, chunksRead, onset, readsAfterStop>>
    /\ UNCHANGED liveKeeps

NextLiveLoop ==
    \/ LiveLoopTest
    \/ \E energy \in CaptureEnergies : LiveRead(energy)
    \/ LiveStageStarts
    \/ \E ok \in BOOLEAN : LiveStageEnds(ok)
    \/ LiveReset

NextLive ==
    \/ LiveStart
    \/ SetStop
    \/ NextLiveLoop

\* ------------------------------------------------------- StreamingSession
\* The session is modelled with both collaborators injected
\* (transcribe_func and synthesize_func are not None).  Its three loops are
\* asyncio tasks: a step runs from one suspension point to the next.
\* _send_message and _change_state never suspend (the queue is unbounded),
\* and AudioBuffer.read never suspends where the session calls it (it is
\* called only when size > 0, and then _not_empty is set).

Msg(type, utt, n, a, b) ==
    [type |-> type, utt |-> utt, n |-> n, a |-> a, b |-> b]

\* The loops never look inside a queued message, so the queue holds each
\* message as a number: how many messages enqueued before it have not yet
\* left _send_loop.  The message due at the transport is number 0.
InFlight == IF txMsg = None THEN 0 ELSE 1

Tasks == {"rx", "tx", "px"}

\* StreamingSession.__init__ followed by start() up to asyncio.gather
InitSess ==
    /\ state = "idle"
    /\ running = TRUE
    /\ send_queue = <<0>>
    /\ send_queue_high = FALSE
    /\ errors = 0
    /\ voice = FALSE
    /\ interim = TRUE
    /\ rxpc = "recv"
    /\ rxLen = 0
    /\ rxUtt = 0
    /\ txpc = "check"
    /\ txMsg = None
    /\ pxpc = "loop"
    /\ pxUtt = 0
    /\ uttCount = 0
    /\ disconnected = FALSE
    /\ cancelReq = {}
    /\ stopped = FALSE
    /\ reported = ""
    /\ fifoOk = TRUE
    /\ finalCount = [u \in 1..MaxUtt |-> 0]
    /\ audioDone = {}
    /\ orderOk = TRUE
    /\ obsHigh = FALSE
    /\ notified = "idle"
    /\ discarded = {}
    /\ lateOk = TRUE
    /\ partialOk = TRUE
    /\ audioPut = <<>>
    /\ latency_samples = <<>>

\* the messages the session puts on the outbound queue
StateChangeStale(old, new) == Msg("state_change", 0, 0, new, new)
\* _change_state: the state_change message for old -> new
StateChange(old, new) == Msg("state_change", 0, 0, old, new)
\* _send_error
ErrorMsg(what) == Msg("error", 0, 0, what, "")
Pong == Msg("pong", 0, 0, "", "")
ConfigMsg == Msg("config", 0, 0, "", "")
Final(u) == Msg("transcript_final", u, 0, "", "")
Partial(u) == Msg("transcript_partial", u, 0, "", "")
\* one binary piece of a synthesized payload: the bytes data
Piece(u, data) == Msg("audio_bytes", u, data, "", "")
\* the audio_response completion marker, bytes_sent = n
Marker(u, n) == Msg("audio_response", u, n, "", "")
MetricsMsg == Msg("metrics", 0, 0, "", "")

\* an audio frame of k bytes; the session never looks inside a byte
Silence(k) == [i \in 1..k |-> 0]

\* the messages that carry the result of a collaborator call
Results == {"transcript_partial", "transcript_final", "audio_bytes",
            "audio_response"}

HowMany(msgs, type, u) ==
    Cardinality({i \in 1..Len(msgs) : msgs[i].type = type /\ msgs[i].utt = u})
Slices(msgs, types) ==
    {msgs[i].utt : i \in {j \in 1..Len(msgs) : msgs[j].type \in types}}

\* history: msgs, enqueued in this order after finals and audios, keep each
\* slice's transcript_partial before its transcript_final and its
\* transcript_final before its audio
RECURSIVE Ordered(_, _, _)
Ordered(msgs, finals, audios) ==
    IF msgs = <<>> THEN TRUE
    ELSE LET m == Head(msgs)
         IN  /\ m.type = "transcript_partial" => m.utt \notin finals \cup audios
             /\ m.type = "transcript_final" => m.utt \notin audios
             /\ m.type \in {"audio_bytes", "audio_response"} => m.utt \in finals
             /\ Ordered(Tail(msgs),
                        IF m.type = "transcript_final"
                        THEN finals \cup {m.utt} ELSE finals,
                        IF m.type \in {"audio_bytes", "audio_response"}
                        THEN audios \cup {m.utt} ELSE audios)

\* history: the error reported by the error message in msgs
Reported(msgs) ==
    LET errs == {i \in 1..Len(msgs) : msgs[i].type = "error"}
    IN  IF errs = {} THEN "" ELSE msgs[CHOOSE i \in errs : TRUE].a

\* history: where the state_change messages of msgs lead from state n
RECURSIVE Told(_, _)
Told(n, msgs) ==
    IF msgs = <<>> THEN n
    ELSE LET m == Head(msgs)
         IN  Told(IF m.type # "state_change" THEN n
                  ELSE IF m.a = n THEN m.b ELSE "lost",
                  Tail(msgs))

\* history: one message has left _send_loop
Renumber(q) == [i \in 1..Len(q) |-> q[i] - 1]

\* history: m is a piece of audio or a completion marker
IsAudio(m) == m.type \in {"audio_bytes", "audio_response"}

\* asyncio.Queue.put on the unbounded queue, once per message of msgs
Put(msgs) ==
    /\ send_queue' = send_queue \o
                        [i \in 1..Len(msgs) |-> InFlight + Len(send_queue) + i - 1]
    /\ reported' = Reported(msgs)
    /\ finalCount' = [u \in 1..MaxUtt |->
                        finalCount[u] + HowMany(msgs, "transcript_final", u)]
    /\ audioDone' = audioDone \cup Slices(msgs, {"audio_bytes", "audio_response"})
    /\ orderOk' = (orderOk /\ Ordered(msgs, {u \in 1..MaxUtt : finalCount[u] > 0},
                                      audioDone))
    /\ notified' = Told(notified, msgs)
    /\ lateOk' = (lateOk /\ Slices(msgs, Results) \cap discarded = {})
    /\ partialOk' = (partialOk /\ (Slices(msgs, {"transcript_partial"}) # {}
                                     => interim))
    /\ audioPut' = SelectSeq(msgs, IsAudio)

\* a put by a running session, which goes on to put more: the queue is
\* followed up to MaxQueue messages
Enqueue(msgs) ==
    /\ Len(send_queue) + Len(msgs) <= MaxQueue
    /\ Put(msgs)

\* the step puts nothing on the queue
NoPut ==
    /\ reported' = ""
    /\ audioPut' = <<>>
    /\ UNCHANGED <<finalCount, audioDone, orderOk, notified, lateOk,
                   partialOk>>

NoEnqueue == NoPut /\ UNCHANGED send_queue

cfgVars == <<voice, interim>>
rxVars == <<rxpc, rxLen, rxUtt>>
txVars == <<txpc, txMsg, send_queue_high, obsHigh, fifoOk>>
pxVars == <<pxpc, pxUtt, latency_samples>>
lifeVars == <<running, disconnected, cancelReq, stopped, discarded>>
\* what a buffer call of the session leaves alone
writeKeeps == <<rsize, wpc, written, readCat, cleared, rAfterClear, lastOp>>
readKeeps == <<rpc, rsize, written, readCat, cleared, rAfterClear, lastOp>>

\* self.metrics.errors += 1, counted up to MaxErrors
CountError(n) == IF n < MaxErrors THEN n + 1 ELSE n

PxRunsDespiteCancel == pxpc # "done"
\* the loop has not finished and no CancelledError is pending for it
RxRuns == rxpc # "done" /\ "rx" \notin cancelReq
TxRuns == txpc # "done" /\ "tx" \notin cancelReq
PxRuns == pxpc # "done" /\ "px" \notin cancelReq
\* _receive_loop is back in websocket.receive() and a frame can arrive
RxReceives == RxRuns /\ rxpc = "recv" /\ ~disconnected

\* ---- _receive_loop
\* receive() times out after 30 s: a pong is queued
RxTimeout ==
    /\ RxReceives
    /\ Enqueue(<<Pong>>)
    /\ UNCHANGED <<state, errors, cfgVars, rxVars, txVars, pxVars, uttCount,
                   lifeVars>>
    /\ UNCHANGED <<bufVars, vadVars>>

\* the transport delivers websocket.disconnect: break
RxDisconnect ==
    /\ RxReceives
    /\ disconnected' = TRUE
    /\ rxpc' = "done"
    /\ NoEnqueue
    /\ UNCHANGED <<state, errors, cfgVars, rxLen, rxUtt, txVars, pxVars,
                   uttCount, running, cancelReq, stopped, discarded>>
    /\ UNCHANGED <<bufVars, vadVars>>

HandleAudioDelaysNever(high) == FALSE
\* _handle_audio: `if self._send_queue_high: await asyncio.sleep(...)`
HandleAudioDelays(high) == high

HandleAudioRejectedQuiet == <<>>
\* _handle_audio: write returned False, _send_error(...)
HandleAudioRejected == <<ErrorMsg("overflow")>>

\* _handle_audio from the write on
HandleAudioWrite(k) ==
    /\ WriteState(Silence(k))
    /\ IF WriteAccepts(buffer, Silence(k))
       THEN /\ NoEnqueue
       ELSE /\ Enqueue(HandleAudioRejected)
    /\ UNCHANGED writeKeeps

\* a binary frame, or an audio_chunk message with valid base64, of k bytes
RxAudio(k) ==
    /\ RxReceives
    /\ IF HandleAudioDelays(send_queue_high)
       THEN /\ rxpc' = "delay"
            /\ rxLen' = k
            /\ NoEnqueue
            /\ UNCHANGED bufVars
       ELSE /\ HandleAudioWrite(k)
            /\ UNCHANGED <<rxpc, rxLen>>
    /\ UNCHANGED <<state, errors, cfgVars, rxUtt, txVars, pxVars, uttCount,
                   lifeVars>>
    /\ UNCHANGED vadVars

\* as RxAudioAfterDelay, but sleeping again for as long as the flag is set
RxAudioAfterDelayWhileHigh ==
    /\ RxRuns
    /\ rxpc = "delay"
    /\ ~send_queue_high
    /\ HandleAudioWrite(rxLen)
    /\ rxpc' = "recv"
    /\ rxLen' = 0
    /\ UNCHANGED <<state, errors, cfgVars, rxUtt, txVars, pxVars, uttCount,
                   lifeVars>>
    /\ UNCHANGED vadVars

\* _handle_audio continues after the backpressure sleep
RxAudioAfterDelay ==
    /\ RxRuns
    /\ rxpc = "delay"
    /\ HandleAudioWrite(rxLen)
    /\ rxpc' = "recv"
    /\ rxLen' = 0
    /\ UNCHANGED <<state, errors, cfgVars, rxUtt, txVars, pxVars, uttCount,
                   lifeVars>>
    /\ UNCHANGED vadVars

\* a text frame json.loads rejects, or audio_chunk data b64decode rejects:
\* the exception reaches the handler around the whole loop
RxMalformed ==
    /\ RxReceives
    /\ errors' = CountError(errors)
    /\ Enqueue(<<ErrorMsg("exception")>>)
    /\ rxpc' = "done"
    /\ UNCHANGED <<state, cfgVars, rxLen, rxUtt, txVars, pxVars, uttCount,
                   lifeVars>>
    /\ UNCHANGED <<bufVars, vadVars>>

\* _handle_message: ping
RxPing ==
    /\ RxReceives
    /\ Enqueue(<<Pong>>)
    /\ UNCHANGED <<state, errors, cfgVars, rxVars, txVars, pxVars, uttCount,
                   lifeVars>>
    /\ UNCHANGED <<bufVars, vadVars>>

\* _handle_message: config -> _update_config
RxConfig(v, i) ==
    /\ RxReceives
    /\ voice' = v
    /\ interim' = i
    /\ Enqueue(<<ConfigMsg>>)
    /\ UNCHANGED <<state, errors, rxVars, txVars, pxVars, uttCount, lifeVars>>
    /\ UNCHANGED <<bufVars, vadVars>>

\* _handle_message: start_stream without data -> _start_stream
RxStartStream ==
    /\ RxReceives
    /\ Enqueue(<<StateChange(state, "listening")>>)
    /\ state' = "listening"
    /\ UNCHANGED <<errors, cfgVars, rxVars, txVars, pxVars, uttCount, lifeVars>>
    /\ UNCHANGED <<bufVars, vadVars>>

\* _handle_message: start_stream with data -> _start_stream
RxStartStreamConfig(v, i) ==
    /\ RxReceives
    /\ voice' = v
    /\ interim' = i
    /\ Enqueue(<<ConfigMsg, StateChange(state, "listening")>>)
    /\ state' = "listening"
    /\ UNCHANGED <<errors, rxVars, txVars, pxVars, uttCount, lifeVars>>
    /\ UNCHANGED <<bufVars, vadVars>>

\* ---- _process_audio and _generate_response
\* what the transcription collaborator does with a slice
TranscribeOutcomes == {"raise", "empty", "partial", "final"}
\* what the synthesis collaborator does: it raises or returns n bytes
SynthOutcomes == {None} \cup (0..MaxPayload)

FinalMsgsTwice(u) == <<Final(u), Final(u)>>
\* _process_audio: _send_message(TRANSCRIPT_FINAL, ...)
FinalMsgs(u) == <<Final(u)>>

\* _process_audio: the messages of the try block up to _generate_response
TranscribeMsgs(outcome, u) ==
    CASE outcome = "final" -> FinalMsgs(u)
      [] outcome = "partial" /\ interim -> <<Partial(u)>>
      [] OTHER -> <<>>

RespondsWithoutVoice(outcome) == outcome = "final"
\* _process_audio goes on to _generate_response
Responds(outcome) == outcome = "final" /\ voice

\* The session never looks inside a synthesized byte, so a payload of n
\* bytes is the bytes 1..n: any loss, duplication or reordering shows.
Payload(n) == [i \in 1..n |-> i]

\* audio_data[i:j], a Python slice: j is clipped to len(audio_data)
Slice(data, i, j) == SubSeq(data, i + 1, IF j < Len(data) THEN j ELSE Len(data))

PiecesWithoutTail(u, n) ==
    [k \in 1..(n \div chunk_size) |->
        Piece(u, Slice(Payload(n), (k - 1) * chunk_size, k * chunk_size))]
\* _generate_response: audio_data[i:i + chunk_size] for i in
\* range(0, len(audio_data), chunk_size), each put on the queue
Pieces(u, n) ==
    [k \in 1..((n + chunk_size - 1) \div chunk_size) |->
        Piece(u, Slice(Payload(n), (k - 1) * chunk_size, k * chunk_size))]

SynthMsgsThenFinal(u, n) == Pieces(u, n) \o <<Marker(u, n), Final(u)>>
\* _generate_response: the pieces, then the completion marker
SynthMsgs(u, n) == Pieces(u, n) \o <<Marker(u, n)>>

\* _generate_response: the messages of the try block
ResponseMsgs(outcome, u) ==
    IF outcome = None \/ outcome = 0 THEN <<>> ELSE SynthMsgs(u, outcome)

\* _process_audio: finally: if self.state == PROCESSING: LISTENING
ProcessAudioFinally(st) ==
    IF st = "processing" THEN <<StateChange(st, "listening")>> ELSE <<>>
\* _generate_response: finally: LISTENING
GenerateResponseFinally(st) == <<StateChange(st, "listening")>>

\* self.state once the state_change messages of msgs have been queued
StateAfter(st, msgs) ==
    LET changes == {i \in 1..Len(msgs) : msgs[i].type = "state_change"}
    IN  IF changes = {} THEN st
        ELSE msgs[CHOOSE i \in changes : \A j \in changes : j <= i].b

\* ---- _process_loop
NotListeningNever(st) == FALSE
\* _process_loop: `if self.state != StreamState.LISTENING`
NotListening(st) == st # "listening"

\* not LISTENING, or less than AUDIO_CHUNK_SIZE buffered: sleep and retry
PxSleep ==
    /\ PxRuns
    /\ pxpc = "loop"
    /\ NotListening(state) \/ Len(buffer) < AUDIO_CHUNK_SIZE
    /\ NoEnqueue
    /\ UNCHANGED <<state, errors, cfgVars, rxVars, txVars, pxVars, uttCount,
                   lifeVars>>
    /\ UNCHANGED <<bufVars, vadVars>>

\* read(AUDIO_CHUNK_SIZE * 4), then _process_audio up to run_in_executor
PxRead ==
    /\ PxRuns
    /\ pxpc = "loop"
    /\ ~NotListening(state)
    /\ Len(buffer) >= AUDIO_CHUNK_SIZE
    /\ uttCount < MaxUtt
    /\ ReadState(AUDIO_CHUNK_SIZE * 4)
    /\ Enqueue(<<StateChange(state, "processing")>>)
    /\ state' = "processing"
    /\ pxpc' = "transcribe"
    /\ pxUtt' = uttCount + 1
    /\ uttCount' = uttCount + 1
    /\ UNCHANGED <<errors, cfgVars, rxVars, txVars, lifeVars, latency_samples>>
    /\ UNCHANGED readKeeps
    /\ UNCHANGED vadVars

KeepOldest(samples) ==
    SubSeq(samples, 1, IF Len(samples) > LATENCY_WINDOW
                       THEN LATENCY_WINDOW ELSE Len(samples))
\* _process_loop: `if len(latency_samples) > 100:
\* latency_samples = latency_samples[-100:]`
KeepRecent(samples) ==
    IF Len(samples) > LATENCY_WINDOW
    THEN SubSeq(samples, Len(samples) - LATENCY_WINDOW + 1, Len(samples))
    ELSE samples

\* _process_loop: latency_samples.append(latency), then the trimming, in the
\* step in which _process_audio returns
RecordLatency(samples, latency) == KeepRecent(Append(samples, latency))

\* _process_loop: _process_audio returned or raised
PxFinish(msgs, raised) ==
    /\ Enqueue(msgs)
    /\ state' = StateAfter(state, msgs)
    /\ errors' = IF raised THEN CountError(errors) ELSE errors
    /\ latency_samples' = IF raised THEN latency_samples
                          ELSE RecordLatency(latency_samples, pxUtt)
    /\ pxpc' = "loop"

\* the transcription call of _process_loop completes
PxTranscribeDone(outcome) ==
    /\ PxRuns
    /\ pxpc = "transcribe"
    /\ IF Responds(outcome)
       THEN /\ Enqueue(TranscribeMsgs(outcome, pxUtt)
                         \o <<StateChange(state, "speaking")>>)
            /\ state' = "speaking"
            /\ pxpc' = "synth"
            /\ UNCHANGED <<errors, latency_samples>>
       ELSE PxFinish(TranscribeMsgs(outcome, pxUtt)
                       \o ProcessAudioFinally(state), outcome = "raise")
    /\ UNCHANGED <<cfgVars, rxVars, txVars, pxUtt, uttCount, lifeVars>>
    /\ UNCHANGED <<bufVars, vadVars>>

\* the synthesis call of _process_loop completes
PxSynthDone(outcome) ==
    /\ PxRuns
    /\ pxpc = "synth"
    /\ PxFinish(ResponseMsgs(outcome, pxUtt) \o GenerateResponseFinally(state),
                outcome = None)
    /\ UNCHANGED <<cfgVars, rxVars, txVars, pxUtt, uttCount, lifeVars>>
    /\ UNCHANGED <<bufVars, vadVars>>

\* ---- _stop_stream, run by _receive_loop
\* _handle_message: stop_stream -> _stop_stream up to run_in_executor
RxStopStream ==
    /\ RxReceives
    /\ IF Len(buffer) > 0
       THEN /\ uttCount < MaxUtt
            /\ ReadState(None)
            /\ Enqueue(<<StateChange(state, "processing")>>)
            /\ state' = "processing"
            /\ rxpc' = "transcribe"
            /\ rxUtt' = uttCount + 1
            /\ uttCount' = uttCount + 1
            /\ UNCHANGED readKeeps
       ELSE /\ Enqueue(<<StateChange(state, "idle")>>)
            /\ state' = "idle"
            /\ UNCHANGED <<rxpc, rxUtt, uttCount>>
            /\ UNCHANGED bufVars
    /\ UNCHANGED <<errors, cfgVars, rxLen, txVars, pxVars, lifeVars>>
    /\ UNCHANGED vadVars

\* _receive_loop: _process_audio under _stop_stream returned, then
\* _change_state(IDLE); or it raised, and the handler around the whole loop
\* counts the error and reports it
RxFinish(msgs, raised) ==
    /\ IF raised
       THEN /\ Enqueue(msgs \o <<ErrorMsg("exception")>>)
            /\ state' = StateAfter(state, msgs)
            /\ errors' = CountError(errors)
            /\ rxpc' = "done"
       ELSE /\ Enqueue(msgs \o <<StateChange(StateAfter(state, msgs), "idle")>>)
            /\ state' = "idle"
            /\ rxpc' = "recv"
            /\ UNCHANGED errors

\* the transcription call of _stop_stream completes
RxTranscribeDone(outcome) ==
    /\ RxRuns
    /\ rxpc = "transcribe"
    /\ IF Responds(outcome)
       THEN /\ Enqueue(TranscribeMsgs(outcome, rxUtt)
                         \o <<StateChange(state, "speaking")>>)
            /\ state' = "speaking"
            /\ rxpc' = "synth"
            /\ UNCHANGED errors
       ELSE RxFinish(TranscribeMsgs(outcome, rxUtt)
                       \o ProcessAudioFinally(state), outcome = "raise")
    /\ UNCHANGED <<cfgVars, rxLen, rxUtt, txVars, pxVars, uttCount, lifeVars>>
    /\ UNCHANGED <<bufVars, vadVars>>

\* the synthesis call of _stop_stream completes
RxSynthDone(outcome) ==
    /\ RxRuns
    /\ rxpc = "synth"
    /\ RxFinish(ResponseMsgs(outcome, rxUtt) \o GenerateResponseFinally(state),
                outcome = None)
    /\ UNCHANGED <<cfgVars, rxLen, rxUtt, txVars, pxVars, uttCount, lifeVars>>
    /\ UNCHANGED <<bufVars, vadVars>>

\* ---- _send_loop
\* _send_loop: `if queue_size > HIGH_WATER_MARK`
ObservesHigh(depth) == depth > HIGH_WATER_MARK

ObservesLowBelowHigh(depth) == depth <= HIGH_WATER_MARK
\* _send_loop: `elif queue_size < LOW_WATER_MARK`
ObservesLow(depth) == depth < LOW_WATER_MARK

\* the top of an iteration: the backpressure check
TxCheck ==
    /\ TxRuns
    /\ txpc = "check"
    /\ IF ObservesHigh(Len(send_queue))
       THEN /\ send_queue_high' = TRUE
            /\ txpc' = "throttle"
       ELSE /\ send_queue_high' =
                 IF ObservesLow(Len(send_queue)) THEN FALSE ELSE send_queue_high
            /\ txpc' = "get"
    /\ obsHigh' = CASE Len(send_queue) > HIGH_WATER_MARK -> TRUE
                    [] Len(send_queue) < LOW_WATER_MARK -> FALSE
                    [] OTHER -> obsHigh
    /\ NoEnqueue
    /\ UNCHANGED <<state, errors, cfgVars, rxVars, txMsg, fifoOk, pxVars,
                   uttCount, lifeVars>>
    /\ UNCHANGED <<bufVars, vadVars>>

\* the backpressure sleep is over
TxThrottled ==
    /\ TxRuns
    /\ txpc = "throttle"
    /\ txpc' = "get"
    /\ NoEnqueue
    /\ UNCHANGED <<state, errors, cfgVars, rxVars, txMsg, send_queue_high,
                   obsHigh, fifoOk, pxVars, uttCount, lifeVars>>
    /\ UNCHANGED <<bufVars, vadVars>>

QueueGetNewest(q) == q[Len(q)]
\* asyncio.Queue.get: the oldest message
QueueGet(q) == Head(q)
\* asyncio.Queue.get: what stays queued
QueueRest(q) == Tail(q)

\* wait_for(self._send_queue.get(), 1.0) returns a message
TxGet ==
    /\ TxRuns
    /\ txpc = "get"
    /\ send_queue # <<>>
    /\ txMsg' = QueueGet(send_queue)
    /\ send_queue' = QueueRest(send_queue)
    /\ txpc' = "send"
    /\ NoPut
    /\ UNCHANGED <<state, errors, cfgVars, rxVars, send_queue_high, obsHigh,
                   fifoOk, pxVars, uttCount, lifeVars>>
    /\ UNCHANGED <<bufVars, vadVars>>

\* wait_for(self._send_queue.get(), 1.0) times out: continue
TxGetTimeout ==
    /\ TxRuns
    /\ txpc = "get"
    /\ send_queue = <<>>
    /\ txpc' = "check"
    /\ NoEnqueue
    /\ UNCHANGED <<state, errors, cfgVars, rxVars, txMsg, send_queue_high,
                   obsHigh, fifoOk, pxVars, uttCount, lifeVars>>
    /\ UNCHANGED <<bufVars, vadVars>>

\* websocket.send_bytes / send_text: the message goes to the transport, or
\* the transport is gone, the call raises and the handler inside the loop
\* counts the error
TxSend ==
    /\ TxRuns
    /\ txpc = "send"
    /\ IF disconnected
       THEN errors' = CountError(errors)
       ELSE UNCHANGED errors
    /\ fifoOk' = (fifoOk /\ txMsg = 0)
    /\ send_queue' = Renumber(send_queue)
    /\ txMsg' = None
    /\ txpc' = "check"
    /\ NoPut
    /\ UNCHANGED <<state, cfgVars, rxVars, send_queue_high, obsHigh, pxVars,
                   uttCount, lifeVars>>
    /\ UNCHANGED <<bufVars, vadVars>>

\* ---- cancellation and stop()
\* the slices a loop is awaiting run_in_executor for: Task.cancel() cancels
\* the future the task awaits, the executor thread runs on and its result
\* has nowhere to go
CallsInFlight ==
    {u \in 1..MaxUtt : \/ u = rxUtt /\ rxpc \in {"transcribe", "synth"}
                       \/ u = pxUtt /\ pxpc \in {"transcribe", "synth"}}

\* the task running start() is cancelled from outside (server shutdown):
\* gather passes the cancellation on to every loop that has not finished
ExternalCancel ==
    /\ cancelReq = {}
    /\ ~stopped
    /\ rxpc # "done" \/ txpc # "done" \/ pxpc # "done"
    /\ cancelReq' = {t \in Tasks : \/ t = "rx" /\ rxpc # "done"
                                   \/ t = "tx" /\ txpc # "done"
                                   \/ t = "px" /\ pxpc # "done"}
    /\ discarded' = discarded \cup CallsInFlight
    /\ NoEnqueue
    /\ UNCHANGED <<state, errors, cfgVars, rxVars, txVars, pxVars, uttCount,
                   running, disconnected, stopped>>
    /\ UNCHANGED <<bufVars, vadVars>>

\* the finally blocks a CancelledError runs through on its way out of a
\* loop suspended at pc
CancelMsgs(pc, st) ==
    CASE pc = "transcribe" -> ProcessAudioFinally(st)
      [] pc = "synth" -> GenerateResponseFinally(st)
      [] OTHER -> <<>>

\* CancelledError is raised in _receive_loop
RxCancelled ==
    /\ "rx" \in cancelReq
    /\ Put(CancelMsgs(rxpc, state))
    /\ state' = StateAfter(state, CancelMsgs(rxpc, state))
    /\ rxpc' = "done"
    /\ cancelReq' = cancelReq \ {"rx"}
    /\ UNCHANGED <<errors, cfgVars, rxLen, rxUtt, txVars, pxVars, uttCount,
                   running, disconnected, stopped, discarded>>
    /\ UNCHANGED <<bufVars, vadVars>>

\* CancelledError is raised in _process_loop
PxCancelled ==
    /\ "px" \in cancelReq
    /\ Put(CancelMsgs(pxpc, state))
    /\ state' = StateAfter(state, CancelMsgs(pxpc, state))
    /\ pxpc' = "done"
    /\ cancelReq' = cancelReq \ {"px"}
    /\ UNCHANGED <<errors, cfgVars, rxVars, txVars, pxUtt, uttCount,
                   latency_samples,
                   running, disconnected, stopped, discarded>>
    /\ UNCHANGED <<bufVars, vadVars>>

\* CancelledError is raised in _send_loop; a message it holds is lost
TxCancelled ==
    /\ "tx" \in cancelReq
    /\ txpc' = "done"
    /\ txMsg' = None
    /\ send_queue' = IF txpc = "send" THEN Renumber(send_queue) ELSE send_queue
    /\ cancelReq' = cancelReq \ {"tx"}
    /\ NoPut
    /\ UNCHANGED <<state, errors, cfgVars, rxVars, send_queue_high, obsHigh,
                   fifoOk, pxVars, uttCount, running, disconnected, stopped,
                   discarded>>
    /\ UNCHANGED <<bufVars, vadVars>>

GatherOverAtFirst ==
    rxpc = "done" \/ txpc = "done" \/ pxpc = "done"
\* start(): `await asyncio.gather(*self._tasks)` is over.  No loop raises
\* (each catches Exception), so gather ends by cancellation only, and a
\* cancelled loop has run through its finally blocks (which never suspend)
\* before the task running start() is resumed.
GatherOver ==
    rxpc = "done" /\ txpc = "done" /\ pxpc = "done"

\* start(): the finally block runs stop()
stop ==
    /\ GatherOver
    /\ ~stopped
    /\ running' = FALSE
    /\ ClearState
    /\ Put(<<MetricsMsg>>)
    /\ stopped' = TRUE
    /\ UNCHANGED <<state, errors, cfgVars, rxVars, txVars, pxVars, uttCount,
                   disconnected, cancelReq, discarded>>
    /\ UNCHANGED readKeeps
    /\ UNCHANGED vadVars

\* the send loop
NextTx ==
    \/ TxCheck
    \/ TxThrottled
    \/ TxGet
    \/ TxGetTimeout
    \/ TxSend

\* the process loop and the collaborators it calls
NextPx ==
    \/ PxSleep
    \/ PxRead
    \/ \E o \in TranscribeOutcomes : PxTranscribeDone(o)

\* ingest and egress: the client sends audio frames of every size, pings,
\* configuration, start_stream and malformed messages, or goes away
NextFlow ==
    \/ RxTimeout
    \/ RxDisconnect
    \/ \E k \in 1..MaxWrite : RxAudio(k)
    \/ RxAudioAfterDelay
    \/ RxMalformed
    \/ RxPing
    \/ \E v \in BOOLEAN, i \in BOOLEAN : RxConfig(v, i)
    \/ RxStartStream
    \/ NextTx

\* the pipeline: the client sends start_stream, with or without a voice
\* profile, audio in frames of AUDIO_CHUNK_SIZE bytes and stop_stream
NextSess ==
    \/ RxStartStream
    \/ \E v \in BOOLEAN : RxStartStreamConfig(v, TRUE)
    \/ RxAudio(AUDIO_CHUNK_SIZE)
    \/ RxAudioAfterDelay
    \/ RxStopStream
    \/ \E o \in TranscribeOutcomes : RxTranscribeDone(o)
    \/ \E o \in SynthOutcomes : RxSynthDone(o)
    \/ NextPx
    \/ \E o \in SynthOutcomes : PxSynthDone(o)
    \/ NextTx

\* cancellation from outside and the teardown it leads to
NextTeardown ==
    \/ ExternalCancel
    \/ RxCancelled
    \/ PxCancelled
    \/ TxCancelled
    \/ stop

\* the life of a session: the client sends start_stream and audio and goes
\* away, and the server may shut down
NextStop ==
    \/ RxStartStream
    \/ RxAudio(AUDIO_CHUNK_SIZE)
    \/ RxAudioAfterDelay
    \/ RxDisconnect
    \/ NextPx
    \/ NextTx
    \/ NextTeardown

\* the pipeline of a session with a voice profile, whose synthesis
\* collaborator returns one piece of audio, and the server shutting
\* down under it
NextAbort ==
    \/ RxStartStreamConfig(TRUE, TRUE)
    \/ RxAudio(AUDIO_CHUNK_SIZE)
    \/ RxAudioAfterDelay
    \/ RxStopStream
    \/ \E o \in TranscribeOutcomes : RxTranscribeDone(o)
    \/ RxSynthDone(chunk_size)
    \/ NextPx
    \/ PxSynthDone(chunk_size)
    \/ NextTx
    \/ NextTeardown

\* transcription and synthesis under every configuration: the client sends
\* start_stream, config messages and audio in frames of AUDIO_CHUNK_SIZE bytes
NextConfig ==
    \/ RxStartStream
    \/ \E v \in BOOLEAN, i \in BOOLEAN : RxConfig(v, i)
    \/ RxAudio(AUDIO_CHUNK_SIZE)
    \/ RxAudioAfterDelay
    \/ NextPx
    \/ \E o \in SynthOutcomes : PxSynthDone(o)
    \/ NextTx

\* --------------------------------------------------------- specifications
vars == <<bufVars, vadVars, sessVars>>

\* a freshly constructed buffer and a freshly constructed detector
Init == InitBuf /\ InitVad /\ InitLive /\ InitRec /\ InitSess

\* the buffer alone, under every interleaving of its callers
SpecBuf == Init /\ [][NextBuf]_vars

\* one session and its collaborators, under every interleaving of the
\* three loops
Spec == Init /\ [][NextSess]_vars

\* one session without transcription, under every interleaving of
\* _receive_loop and _send_loop
SpecFlow == Init /\ [][NextFlow]_vars

\* the send loop keeps going: its sleeps end, its queue wait returns or times
\* out, and a transport write returns or raises; the client owes nothing
FairSpecEgress == SpecFlow /\ WF_vars(NextTx)

\* the backpressure sleep of _handle_audio ends; the send loop and the client
\* owe nothing, so the congestion may last for ever
FairSpecIngest == SpecFlow /\ WF_vars(RxAudioAfterDelay)

\* one session from start() to stop()
SpecStop == Init /\ [][NextStop]_vars

\* one session, its collaborators and a client that reconfigures it
SpecConfig == Init /\ [][NextConfig]_vars

\* one session with calls in flight, from start() to stop()
SpecAbort == Init /\ [][NextAbort]_vars

\* every loop that can take a step eventually takes one, a pending
\* CancelledError is eventually raised, and start() goes on to stop() once
\* gather is over; the client and the server shutdown owe nothing
FairSpecStop ==
    /\ SpecStop
    /\ WF_vars(NextTx)
    /\ WF_vars(NextPx)
    /\ WF_vars(RxAudioAfterDelay)
    /\ WF_vars(RxCancelled)
    /\ WF_vars(PxCancelled)
    /\ WF_vars(TxCancelled)
    /\ WF_vars(stop)

\* the detector alone, fed every sequence of chunk energies and resets
SpecVad == Init /\ [][NextVad]_vars

\* one recording: the calling thread, the audio thread and the detector
SpecRecord == Init /\ [][NextRec]_vars

\* the calling thread keeps running and audio chunks keep arriving
FairSpecRecord ==
    /\ SpecRecord
    /\ WF_vars(RecPoll)
    /\ WF_vars(RecClose)
    /\ WF_vars(\E energy \in CaptureEnergies : audio_callback(energy))

\* live mode: the loop, the detector it feeds and the stop thread
SpecLive == Init /\ [][NextLive]_vars

\* the thread of the loop keeps running: chunks keep arriving at the input
\* stream, and every stage of _process_live_utterance returns
FairSpecLive == SpecLive /\ WF_vars(NextLiveLoop)

\* ------------------------------------------------------------- properties
\* C1: in every reachable state of the buffer, under any interleaving of
\* write, read and clear, 0 <= len(buffer) <= max_size.
BufferWithinCapacity == 0 <= Len(buffer) /\ Len(buffer) <= MaxSize

\* a full buffer that has just turned a write away
BufferWithinCapacityWitness ==
    /\ Len(buffer) = MaxSize
    /\ lastOp.op = "write"
    /\ ~lastOp.ok

\* C2: a write that fits returns true, grows the size by exactly len(b) and
\* puts b after the bytes already buffered.
WriteThatFitsAppends ==
    [][(lastOp'.op = "write" /\ Len(buffer) + Len(lastOp'.data) <= MaxSize)
         => /\ lastOp'.ok
            /\ Len(buffer') = Len(buffer) + Len(lastOp'.data)
            /\ buffer' = buffer \o lastOp'.data]_vars

\* a non-empty write accepted behind bytes that were already buffered
WriteThatFitsAppendsWitness ==
    /\ lastOp.op = "write"
    /\ lastOp.ok
    /\ Len(lastOp.data) > 0
    /\ Len(buffer) > Len(lastOp.data)

\* C3: a write that does not fit returns false and leaves the buffered
\* bytes as they were; it still does not fit afterwards, so repeating it is
\* rejected again with the same contents.
WriteThatOverflowsIsRejected ==
    [][(lastOp'.op = "write" /\ Len(buffer) + Len(lastOp'.data) > MaxSize)
         => /\ ~lastOp'.ok
            /\ buffer' = buffer
            /\ Len(buffer') + Len(lastOp'.data) > MaxSize]_vars

\* a write turned away by a buffer that holds bytes but is not full
WriteThatOverflowsIsRejectedWitness ==
    /\ lastOp.op = "write"
    /\ ~lastOp.ok
    /\ buffer # <<>>
    /\ Len(buffer) < MaxSize

\* C4: without clear, the bytes returned by reads, in order, are a prefix of
\* the accepted writes, in order; together with what is still buffered they
\* are exactly the accepted writes, and once the buffer is drained the reads
\* equal the writes.
ReadsArePrefixOfWrites ==
    /\ IsPrefix(readCat, written)
    /\ written = readCat \o buffer
    /\ buffer = <<>> => readCat = written

\* all MaxTotal bytes written and drained again, by more than one read
ReadsArePrefixOfWritesWitness ==
    /\ Len(written) = MaxTotal
    /\ buffer = <<>>
    /\ lastOp.op = "read"
    /\ lastOp.data # <<>>
    /\ Len(lastOp.data) < Len(readCat)

\* C5: every read that completes returns at least one byte, at most
\* max_bytes of them (the whole buffer if max_bytes is unspecified), and
\* removes exactly the bytes it returns.
ReadReturnsAvailableBytes ==
    [][lastOp'.op = "read"
         => /\ Len(lastOp'.data) >= 1
            /\ lastOp'.size = None => lastOp'.data = buffer
            /\ lastOp'.size # None => Len(lastOp'.data) <= lastOp'.size
            /\ buffer = lastOp'.data \o buffer']_vars

\* C6: clear() leaves the buffer empty and releases every task waiting on
\* not-full; a read called after clear() does not complete before a write
\* of at least one byte has been accepted.
ClearEmptiesAndReleases ==
    [][/\ lastOp'.op = "clear"
            => /\ buffer' = <<>>
               /\ \A w \in Waiters : wpc[w] = "waiting" => wpc'[w] = "woken"
       /\ \A r \in Readers :
            (/\ lastOp'.op = "read"
             /\ lastOp'.task = r
             /\ IF rpc[r] = "idle" THEN cleared ELSE rAfterClear[r])
            => written' # <<>>]_vars

\* C7: in a step of process_chunk is_speaking turns true only if
\* speech_frames >= min_speech_frames after the counter update, and turns
\* false only if silence_frames > max_silence_frames; otherwise it keeps
\* its value.
SegmenterHysteresis ==
    vadOp = "chunk"
        => /\ (~prevSpeaking /\ is_speaking)
                => speech_frames >= min_speech_frames
           /\ (prevSpeaking /\ ~is_speaking)
                => silence_frames > max_silence_frames

\* the utterance has just been ended by sustained silence
SegmenterHysteresisWitness ==
    /\ vadOp = "chunk"
    /\ prevSpeaking
    /\ ~is_speaking
    /\ silence_frames = max_silence_frames + 1

\* C8: after reset(), when only above-threshold chunks have been fed,
\* process_chunk reports Speaking from the min_speech_frames-th chunk on and
\* on no earlier chunk.
SpeakingOnNthSpeechChunk ==
    (vadOp = "chunk" /\ allVoice)
        => (is_speaking <=> curRun >= min_speech_frames)

\* reset() was called and exactly min_speech_frames loud chunks followed
SpeakingOnNthSpeechChunkWitness ==
    /\ resetSeen
    /\ vadOp = "chunk"
    /\ allVoice
    /\ curRun = min_speech_frames
    /\ ~prevSpeaking
    /\ is_speaking

\* C9: while Speaking, a run of below-threshold chunks keeps is_speaking
\* true up to max_silence_frames chunks and makes it false on chunk
\* max_silence_frames + 1.
SilenceRunEndsUtterance ==
    (vadOp = "chunk" /\ prevSpeaking /\ silRun > 0)
        => (is_speaking <=> silRun <= max_silence_frames)

\* the longest pause that is still tolerated
SilenceRunEndsUtteranceWitness ==
    /\ vadOp = "chunk"
    /\ prevSpeaking
    /\ is_speaking
    /\ silRun = max_silence_frames

\* C10: after reset(), as long as no run of above-threshold chunks has
\* reached min_speech_frames chunks, the segmenter is not Speaking.
ClickRejection == ~longRun => ~is_speaking

\* C11: reset() in any segmenter state yields is_speaking = false,
\* speech_frames = 0 and silence_frames = 0, and a second reset() right
\* after it changes nothing in the detector.
ResetIsIdempotent ==
    [][vadOp' = "reset"
         => /\ ~is_speaking'
            /\ speech_frames' = 0
            /\ silence_frames' = 0
            /\ vadOp = "reset"
                 => UNCHANGED <<is_speaking, speech_frames, silence_frames,
                                noise_floor, energy_threshold>>]_vars

\* reset() called in the middle of an utterance, after the floor has moved
ResetIsIdempotentWitness ==
    /\ vadOp = "reset"
    /\ prevSpeaking
    /\ noise_floor # NoiseFloorInit

\* --------------------------------------------------- session: properties
\* C12: when the transport disconnects, the session is eventually torn
\* down: stop() runs, so _running is cleared, the three loops are over and
\* the audio buffer is empty.
TeardownFollowsDisconnect ==
    disconnected ~> (stopped /\ ~running /\ buffer = <<>>
                       /\ rxpc = "done" /\ txpc = "done" /\ pxpc = "done")

\* the step is a write of _handle_audio that the buffer turned away: only
\* such a write clears _not_full, and only it reports an overflow
RejectedWrite == (not_full /\ ~not_full') \/ reported' = "overflow"

\* C13: when an incoming audio frame does not fit in the buffer, the frame
\* is dropped (the buffer keeps its contents), one error message is
\* enqueued, the receive loop goes back to receiving, and the session state
\* is what it was; the session is not torn down.
OverflowIsReported ==
    [][RejectedWrite
         => /\ buffer' = buffer
            /\ reported' = "overflow"
            /\ Len(send_queue') = Len(send_queue) + 1
            /\ rxpc' = "recv"
            /\ state' = state
            /\ running' /\ ~stopped' /\ ~disconnected']_vars

\* a Listening session has just turned a frame away, with and without the
\* backpressure delay before the write
OverflowIsReportedWitness ==
    /\ reported = "overflow"
    /\ state = "listening"
    /\ Len(buffer) = MaxSize
    /\ rxpc = "recv"

\* the step is _process_loop handing a slice of the buffer to the
\* transcription collaborator
ProcessLoopCalls == pxpc = "loop" /\ pxpc' = "transcribe"

\* C14: while Listening, the process loop calls the transcription
\* collaborator only at an utterance boundary decided by the segmenter: what
\* it hands over is an accumulated utterance, which the segmenter starts
\* only after min_speech_frames chunks of speech.
ProcessLoopHandsOverUtterances ==
    [][ProcessLoopCalls
         => Len(buffer) - Len(buffer') >= min_speech_frames * AUDIO_CHUNK_SIZE]_vars

\* the step is a transcription or synthesis call raising in the loop that
\* made it: the loop leaves the call and the error counter goes up
CallRaised ==
    /\ errors' # errors
    /\ \/ pxpc \in {"transcribe", "synth"} /\ pxpc' # pxpc
       \/ rxpc \in {"transcribe", "synth"} /\ rxpc' # rxpc

\* C15: whenever a transcription or synthesis call raises, from the process
\* loop or from stop_stream handling, the error counter is incremented, an
\* error message is enqueued, none of the three loops terminates, and the
\* session returns to Listening.
CallFailureIsReported ==
    [][CallRaised
         => /\ errors' = errors + 1
            /\ reported' = "exception"
            /\ rxpc' # "done" /\ txpc' # "done" /\ pxpc' # "done"
            /\ state' = "listening"]_vars

\* the step is the receive loop reporting an exception raised while it
\* decoded or handled the frame it has just received
FrameRaised == rxpc = "recv" /\ reported' = "exception"

\* C16: a malformed inbound message (text that is not JSON, audio_chunk data
\* that is not base64) is reported with an error message and dropped, and
\* the receive loop goes on receiving.
MalformedIsDropped ==
    [][FrameRaised
         => /\ rxpc' = "recv"
            /\ buffer' = buffer
            /\ state' = state]_vars

\* C17: within one session, messages are written to the transport in
\* exactly the order in which they were enqueued: every message that leaves
\* the send loop is the one due, and the messages still queued are the
\* following ones, each once, in enqueue order.
EgressIsFifo ==
    /\ fifoOk
    /\ txMsg # None => txMsg = 0
    /\ \A i \in 1..Len(send_queue) : send_queue[i] = InFlight + i - 1

\* the send loop holds a message for the transport with others queued
\* behind it, after at least seven messages were enqueued
EgressIsFifoWitness ==
    /\ txpc = "send"
    /\ Len(send_queue) >= 2
    /\ audioDone # {}
    /\ fifoOk

OneFinalPerUtterance == \A u \in 1..MaxUtt : finalCount[u] <= 1

\* the process loop is still in the transcription call for its slice while
\* stop_stream handling, which came later, has enqueued the transcript_final
\* of the rest of the buffer
OneFinalPerUtteranceWitness ==
    /\ pxpc = "transcribe"
    /\ pxUtt # 0
    /\ rxpc = "synth"
    /\ rxUtt > pxUtt
    /\ finalCount[rxUtt] = 1
    /\ finalCount[pxUtt] = 0

\* the step is _handle_audio writing a frame without having slept
UndelayedWrite ==
    /\ rxpc = "recv"
    /\ Len(buffer') > Len(buffer) \/ reported' = "overflow"
\* the step is _handle_audio starting its backpressure sleep
StartsDelay == rxpc = "recv" /\ rxpc' = "delay"

\* C20, as stated: once the outbound queue depth has been pushed above the
\* high-water mark every ingest audio write is preceded by a delay, until
\* the depth drops below the low-water mark, after which writes are no
\* longer delayed.  So no write goes undelayed while the depth is above the
\* high-water mark, and none is delayed while it is below the low-water
\* mark.
BackpressureFollowsDepth ==
    [][/\ UndelayedWrite => Len(send_queue) <= HIGH_WATER_MARK
       /\ StartsDelay => Len(send_queue) >= LOW_WATER_MARK]_vars

\* C20, amended: once the send loop has observed, at the top of an
\* iteration, a depth above the high-water mark, every ingest audio write
\* is preceded by a delay, until the send loop observes a depth below the
\* low-water mark; from then on writes are not delayed.
BackpressureFollowsObservedDepth ==
    [][/\ UndelayedWrite => ~obsHigh
       /\ StartsDelay => obsHigh
       /\ send_queue_high' = obsHigh']_vars

\* a write is being delayed although the queue has already drained below
\* the low-water mark, because the send loop has not looked again
BackpressureFollowsObservedDepthWitness ==
    /\ rxpc = "delay"
    /\ obsHigh
    /\ Len(send_queue) < LOW_WATER_MARK

\* C21: every change of the session state comes with one state_change
\* message, enqueued in the same step, that names the state before the change
\* as previous_state and the state after it as state: followed from the first
\* one on, the state_change messages enqueued so far always lead to exactly
\* the current session state, so the state is never modified without one.
StateChangesAreAnnounced == notified = state

\* the session has gone idle -> listening -> processing -> speaking, by
\* steps of both loops, and each change was announced
StateChangesAreAnnouncedWitness ==
    /\ state = "speaking"
    /\ notified = "speaking"
    /\ pxpc = "synth"

\* C22: stop() leaves the audio buffer empty, and when stop() has run while
\* the transport is still writable (the client has not disconnected), the
\* final metrics message stop() enqueued, the last message of the outbound
\* queue, eventually leaves the queue for the transport.
FinalMetricsReachTransport ==
    /\ [](stopped => buffer = <<>>)
    /\ (stopped /\ ~disconnected) ~> (send_queue = <<>> /\ txMsg = None)

\* C23: when the loops are cancelled while a transcription or synthesis call
\* is in flight, the call's result is discarded: from the cancellation on,
\* through stop() and after it, no transcript_partial, transcript_final,
\* audio piece or audio_response of the slice the call was made for is
\* enqueued.
DiscardedCallEnqueuesNothing == lateOk

\* stop() has run after a cancellation that caught one slice in its
\* transcription call and another, already transcribed, in its synthesis call
DiscardedCallEnqueuesNothingWitness ==
    /\ stopped
    /\ \E u \in discarded, w \in discarded :
          /\ finalCount[u] = 0
          /\ finalCount[w] = 1
          /\ w \notin audioDone

\* C24: a config update is applied between utterances, never mid-utterance:
\* in a step taken while a transcription or synthesis call is in flight, the
\* configuration values the utterance is processed with (voice_profile_id,
\* interim_results) are left as they were.
ConfigChangesBetweenUtterances ==
    [][CallsInFlight # {} => UNCHANGED cfgVars]_vars

\* C25: a transcription call started by the process loop keeps the session
\* in Processing for as long as the call is in flight, and when the call
\* completes and _process_audio returns, by success or by failure, the
\* session state is Listening.
ProcessingWhileTranscribing ==
    [][/\ pxpc' = "transcribe" => state' = "processing"
       /\ pxpc = "transcribe" /\ pxpc' = "loop" => state' = "listening"]_vars

\* C26 as stated: the process loop reads the buffer, and calls a
\* collaborator (transcription or synthesis), only in a step that starts with
\* the session state Listening.
ProcessLoopActsOnlyWhenListening ==
    [][\/ pxUtt' # pxUtt
       \/ pxpc' \in {"transcribe", "synth"} /\ pxpc' # pxpc
       => state = "listening"]_vars

\* C26: the process loop removes audio from the buffer and starts a
\* transcription call only in a step that starts with the session state
\* Listening; in Idle, Processing, Speaking or Error it does neither.  (The
\* synthesis call is started in the step in which the transcription returns,
\* whatever the state is then.)
ProcessLoopReadsOnlyWhenListening ==
    [][\/ pxUtt' # pxUtt
       \/ pxpc' = "transcribe" /\ pxpc # "transcribe"
       => state = "listening" /\ Len(buffer') < Len(buffer)]_vars

\* the process loop has taken a slice before and is back at the top of its
\* loop with a chunk buffered, and does not take it: the state is not
\* Listening
ProcessLoopReadsOnlyWhenListeningWitness ==
    /\ pxpc = "loop"
    /\ pxUtt > 0
    /\ Len(buffer) >= AUDIO_CHUNK_SIZE
    /\ state \in {"idle", "processing", "speaking"}

\* C27: the synthesis collaborator is invoked only in the step in which a
\* transcription call returned a non-empty final result (its transcript_final
\* is enqueued in that same step) and only with a voice profile configured;
\* a partial result therefore never triggers synthesis, and no
\* transcript_partial is enqueued while interim_results is disabled.
SynthesisOnlyAfterFinalWithVoice ==
    [][/\ pxpc' = "synth" /\ pxpc # "synth"
          => /\ pxpc = "transcribe"
             /\ voice
             /\ finalCount'[pxUtt] = finalCount[pxUtt] + 1
       /\ partialOk']_vars

\* a synthesis call is in flight for a slice whose transcript_final has been
\* enqueued, in a session with a voice profile and interim results disabled
SynthesisOnlyAfterFinalWithVoiceWitness ==
    /\ pxpc = "synth"
    /\ finalCount[pxUtt] = 1
    /\ voice
    /\ ~interim

\* C28: send_queue_high has hysteresis: it becomes true only in a step of the
\* send loop's check that observes depth > HIGH_WATER_MARK, becomes false
\* only in such a step that observes depth < LOW_WATER_MARK, and a check that
\* observes LOW_WATER_MARK <= depth <= HIGH_WATER_MARK leaves it as it was;
\* and once the depth stays below LOW_WATER_MARK the flag is eventually false.
WaterMarkHysteresis ==
    /\ [][/\ send_queue_high' /\ ~send_queue_high
             => txpc = "check" /\ Len(send_queue) > HIGH_WATER_MARK
          /\ ~send_queue_high' /\ send_queue_high
             => txpc = "check" /\ Len(send_queue) < LOW_WATER_MARK
          /\ /\ txpc = "check" /\ txpc' # "check"
             /\ Len(send_queue) >= LOW_WATER_MARK
             /\ Len(send_queue) <= HIGH_WATER_MARK
             => UNCHANGED send_queue_high]_vars
    /\ [](Len(send_queue) < LOW_WATER_MARK) ~> ~send_queue_high

\* the send loop has just checked a depth between the marks and has left the
\* flag set
WaterMarkHysteresisWitness ==
    /\ send_queue_high
    /\ txpc = "get"
    /\ Len(send_queue) >= LOW_WATER_MARK
    /\ Len(send_queue) <= HIGH_WATER_MARK

\* C29: while a transcription or synthesis call is in flight the ingest loop
\* is not stalled: the receive loop is in websocket.receive() or handling an
\* audio frame, never itself waiting for the call to return.
IngestRunsDuringCalls ==
    CallsInFlight # {} => rxpc \in {"recv", "delay"}

\* C30: however long the egress congestion lasts (send_queue_high may stay
\* true for ever), the handling of a received audio frame waits at most once:
\* the step that follows the delay completes the handling, with the frame
\* appended to the buffer or rejected with an overflow error, and that step
\* is eventually taken.  (The outbound queue is unbounded; here it holds up
\* to MaxQueue messages, and a frame is followed from a state in which the
\* queue has room for the error message.)
IngestIsNotStarved ==
    /\ [][rxpc = "delay" /\ rxpc' # "delay"
          => /\ rxpc' = "recv"
             /\ \/ buffer' = buffer \o Silence(rxLen)
                \/ buffer' = buffer /\ reported' = "overflow"]_vars
    /\ (rxpc = "delay" /\ Len(send_queue) < MaxQueue) ~> (rxpc = "recv")

\* a frame that waited out the delay has been rejected and the receive loop
\* is back in receive(), with the flag still set
IngestIsNotStarvedWitness ==
    /\ send_queue_high
    /\ rxpc = "recv"
    /\ reported = "overflow"

\* C34: whenever the not-full event is clear the buffer holds at least one
\* byte, so that a read can complete and set the event again; a task parked
\* in wait_not_full() is then never parked together with every reader on an
\* empty buffer.
NotFullClearImpliesBytes ==
    ~not_full => buffer # <<>>

\* C35: _stop_stream leaves the session Idle when it returns, and the process
\* loop has a call in flight in state Idle only after a stop_stream; from
\* then on, until a start_stream is received, the session stays Idle: the
\* process loop, whatever call it had in flight when stop_stream arrived,
\* never takes the session out of Idle.
IdleAfterStopStream ==
    [][state = "idle" /\ state' # "idle" => pxpc' = pxpc]_vars

\* C36: once stop() has run the session is quiescent: every loop has
\* finished, the cleanup of a loop cancelled during a collaborator call
\* included, so that no step after stop() modifies session.state or puts a
\* message (a state_change in particular) on the outbound queue.
QuiescentAfterStop ==
    /\ [](stopped => GatherOver /\ cancelReq = {})
    /\ [][stopped => UNCHANGED <<state, notified, send_queue>>]_vars

\* stop() has run after a loop was cancelled during a collaborator call, and
\* the loop's cleanup has set Listening and announced it
QuiescentAfterStopWitness ==
    /\ stopped
    /\ discarded # {}
    /\ state = "listening"
    /\ notified = "listening"

\* C37: transcripts are enqueued in the order in which their audio left the
\* buffer (slices are numbered in that order): when the final transcript of
\* a slice is enqueued, no final transcript of a slice read after it has
\* been enqueued before.
TranscriptsInReadOrder ==
    [][\A u \in 1..MaxUtt :
          finalCount'[u] > finalCount[u]
          => \A w \in (u + 1)..MaxUtt : finalCount[w] = 0]_vars

\* the bytes of the pieces msgs, joined in queue order
RECURSIVE Joined(_)
Joined(msgs) ==
    IF msgs = <<>> THEN <<>> ELSE Head(msgs).n \o Joined(Tail(msgs))

\* C31: when a synthesis call returns n bytes, the step enqueues binary
\* pieces of 1..chunk_size bytes each whose concatenation, in queue order,
\* is the payload, followed by one audio_response marker with
\* bytes_sent = n, and no other audio message; when it returns an empty
\* payload the step enqueues no piece and no marker.
PayloadIsChunked ==
    [][(\/ pxpc = "synth" /\ pxpc' # "synth"
        \/ rxpc = "synth" /\ rxpc' # "synth")
       => \A n \in 0..MaxPayload :
            PxSynthDone(n) \/ RxSynthDone(n)
            => IF n = 0 THEN audioPut' = <<>>
               ELSE LET k == Len(audioPut') - 1
                        pieces == SubSeq(audioPut', 1, k)
                    IN  /\ k >= 1
                        /\ \A i \in 1..k :
                              /\ pieces[i].type = "audio_bytes"
                              /\ Len(pieces[i].n) \in 1..chunk_size
                        /\ Joined(pieces) = Payload(n)
                        /\ audioPut'[k + 1].type = "audio_response"
                        /\ audioPut'[k + 1].n = n]_vars

\* a payload longer than chunk_size has just been enqueued: a full piece, a
\* shorter last piece and the marker
PayloadIsChunkedWitness ==
    /\ Len(audioPut) = 3
    /\ Len(audioPut[1].n) = chunk_size
    /\ Len(audioPut[2].n) < chunk_size
    /\ audioPut[3].n = chunk_size + 1

\* the step is the return of _process_audio to _process_loop
ProcessAudioReturned ==
    \/ \E o \in TranscribeOutcomes \ {"raise"} :
          PxTranscribeDone(o) /\ ~Responds(o)
    \/ \E n \in 0..MaxPayload : PxSynthDone(n)

ChunkRange(first, last) == [i \in 1..(last - first + 1) |-> first + i - 1]

\* C38: the utterance handed to _process_live_utterance holds every chunk
\* from the first above-threshold chunk of the run at which the detector
\* went Silence -> Speaking up to the last chunk of the closing silence: no
\* chunk at the onset of the speech is left out.
UtteranceHoldsOnset ==
    live_pc \in ReadySet \cup StageSet
    => audio_buffer = ChunkRange(onset, chunksRead)

RecordingStopsAndReturnsAll ==
    /\ [][rec_pc = "sleep" /\ rec_pc' = "closing"
          => \/ everSpeaking /\ notSpeakingRun > silence_limit
             \/ delivered >= MaxDuration]_vars
    /\ [](rec_pc = "done" => returned = ChunkRange(1, delivered))
    /\ (rec_pc = "sleep") ~> (rec_pc = "done")

\* a recording has ended on silence, before max_duration, and has returned
\* its chunks
RecordingStopsAndReturnsAllWitness ==
    /\ rec_pc = "done"
    /\ everSpeaking
    /\ notSpeakingRun > silence_limit
    /\ Len(returned) < MaxDuration

====
